---- MODULE Spec2Model ----
(***************************************************************************)
(* right-to-read-service: the page enrichment and narration pipeline.      *)
(*                                                                         *)
(*   process_tts_request        src/main/services/tts_service.py           *)
(*   generate_block_json,                                                  *)
(*   chunk_and_process_json,                                               *)
(*   create_fallback_block_json src/main/utils/generate_block_json_utils.py*)
(*   save_audio_and_speech_marks src/main/utils/saving_utils.py            *)
(*   annotate_image_with_words  src/main/utils/image_processing_utils.py   *)
(*                                                                         *)
(* Python values are records tagged by "kind": none, str, num, list, dict, *)
(* and json (a str that holds the json.dumps text of a value).  A str is a *)
(* sequence of symbols; a dict is the sequence of its entries in insertion *)
(* order.                                                                  *)
(***************************************************************************)
EXTENDS Integers, Sequences, FiniteSets, TLC

VARIABLES
    \* ---- process_tts_request (tts_service.py)
    pc,             \* position in process_tts_request
    polly,          \* polly_client is not None (module level, line 20)
    numPages,       \* len(pdf) of the uploaded document
    page_number,    \* loop variable of line 47
    tempCreated,    \* temp_pdf is not None
    tempExists,     \* the temporary file is on disk
    removeResult,   \* how os.remove(temp_pdf.name) ended (line 136), "none": not called
    block_details,  \* line 60-61
    block_json,     \* line 70
    fallbackTaken,  \* line 70 returned from lines 145-150, the fallback enrichment
    retriesExhausted, \* line 70 returned None after MAX_RETRIES failed attempts
    entryIdx,       \* how many entries of line 85 are consumed
    audio_metadata, \* line 82: sequence of block ids holding an entry
    vertex_path,    \* line 94: "unbound" or the page whose file it names
    results,        \* line 43
    exc,            \* the exception caught on line 125, "none": none
    excPage,        \* page being processed when it was raised, -1: no page
    ret,            \* the value of the return statement (line 119 / 127)
    outcome,        \* "running", "returned" or "raised"
    ops,            \* operations performed, as <<page, operation>>
    synthLog,       \* synthesizer runs of the current page
    \* ---- generate_block_json (generate_block_json_utils.py)
    genPc,          \* "idle", "setup", "model", "loop", "returned", "raised"
    genArg,         \* blocks_input_json_str
    attempt,        \* loop variable of line 160
    history,        \* every generate_content call, in order: failed, or the parsed reply
    genResult,      \* the returned value
    \* ---- chunk_and_process_json
    chPc,           \* "idle", "start", "loop", "wait", "done"
    chArg,          \* blocks_input_json_str
    chunk_size,
    block_keys,     \* line 230
    chI,            \* loop variable of line 233
    final_output,   \* line 231
    submitted,      \* the chunks handed to generate_block_json, in order
    chunkResults,   \* how generate_block_json ended for each of them, in order
    chResult,       \* the returned value
    \* ---- create_fallback_block_json called on its own
    fbPc,           \* "idle", "input", "once", "twice"
    fbIn,           \* the block map given
    fbOut,          \* the result of the first application
    fbOut2,         \* the result of applying it to json.dumps(fbOut)
    \* ---- voice resolution of save_audio_and_speech_marks called on its own
    vcPc,           \* "idle", "input", "resolved"
    vcIn,           \* the two person_type values given
    vcOut,          \* how line 60 ended for each of them
    \* ---- annotate_image_with_words called on its own
    exPc,           \* "idle", "words", "strip", "done"
    exWords,        \* the words argument
    exIdx,          \* how many words the loop of line 29 has processed
    exDetails,      \* the block_details argument, filled in place
    \* ---- clean_llm_response_to_json_string called on its own
    clPc,           \* "idle", "input", "cleaned"
    clIn,           \* the response, by its parts
    clOut           \* the returned string

ttsVars == <<pc, polly, numPages, page_number, tempCreated, tempExists, removeResult,
             block_details, block_json, fallbackTaken, retriesExhausted, entryIdx, audio_metadata,
             vertex_path, results, exc, excPage, ret, outcome, ops, synthLog>>
genVars == <<genPc, genArg, attempt, history, genResult>>
chVars == <<chPc, chArg, chunk_size, block_keys, chI, final_output, submitted,
           chunkResults, chResult>>
fbVars == <<fbPc, fbIn, fbOut, fbOut2>>
vcVars == <<vcPc, vcIn, vcOut>>
exVars == <<exPc, exWords, exIdx, exDetails>>
clVars == <<clPc, clIn, clOut>>
fnVars == <<vcVars, exVars, clVars>>
vars == <<ttsVars, genVars, chVars, fbVars, fnVars>>

(***************************************************************************)
(* Bounds of the model.                                                    *)
(***************************************************************************)
MaxPages == 2       \* pages of an uploaded document
MaxBlocks == 2      \* block ids "0" .. MaxBlocks-1 in a provider reply
MaxKeys == 3        \* blocks of a block map given to chunk_and_process_json
MaxWords == 3       \* words of a word list given to annotate_image_with_words

(***************************************************************************)
(* Python values.                                                          *)
(***************************************************************************)
None == [kind |-> "none"]
Str(s) == [kind |-> "str", s |-> s]
Num(n) == [kind |-> "num", n |-> n]
List(items) == [kind |-> "list", items |-> items]
Dict(entries) == [kind |-> "dict", entries |-> entries]
Entry(k, v) == [k |-> k, v |-> v]

\* bool(v)
Truthy(v) ==
    CASE v.kind = "none" -> FALSE
      [] v.kind = "str" -> v.s # <<>>
      [] v.kind = "num" -> v.n # 0
      [] v.kind = "list" -> v.items # <<>>
      [] v.kind = "dict" -> v.entries # <<>>
      [] OTHER -> TRUE

Keys(d) == [i \in 1..Len(d.entries) |-> d.entries[i].k]
HasKey(d, key) == \E i \in 1..Len(d.entries) : d.entries[i].k = key
\* d[key], for a key of d
Item(d, key) == d.entries[CHOOSE i \in 1..Len(d.entries) : d.entries[i].k = key].v
\* d.get(key, default)
Get(d, key, default) == IF HasKey(d, key) THEN Item(d, key) ELSE default
\* d[key] = v: replaces the value in place, or appends a new entry
SetItem(d, key, v) ==
    IF HasKey(d, key)
    THEN Dict([i \in 1..Len(d.entries) |->
                 IF d.entries[i].k = key THEN Entry(key, v) ELSE d.entries[i]])
    ELSE Dict(Append(d.entries, Entry(key, v)))

RECURSIVE UpdateEntries(_, _)
UpdateEntries(d, es) ==
    IF es = <<>> THEN d
    ELSE UpdateEntries(SetItem(d, Head(es).k, Head(es).v), Tail(es))
\* d.update(other), other a dict
Update(d, other) == UpdateEntries(d, other.entries)

(***************************************************************************)
(* json.dumps / json.loads.  The text of a value is a str of its own kind; *)
(* loads gives the value back for such a text, raises JSONDecodeError for  *)
(* any other str and TypeError for an argument that is not a str.          *)
(***************************************************************************)
JsonDumps(v) == [kind |-> "json", val |-> v]
JsonLoads(x) ==
    CASE x.kind = "json" -> [exc |-> "none", val |-> x.val]
      [] x.kind = "str" -> [exc |-> "JSONDecodeError", val |-> None]
      [] OTHER -> [exc |-> "TypeError", val |-> None]

(***************************************************************************)
(* String literals of the source, as sequences of symbols.                 *)
(***************************************************************************)
EmptyStr == Str(<<>>)
SsmlOpen == <<"<speak><prosody rate='slow'>">>
SsmlClose == <<"</prosody></speak>">>
StrFalse == Str(<<"f", "a", "l", "s", "e">>)
StrTrue == Str(<<"t", "r", "u", "e">>)
StrNull == Str(<<"n", "u", "l", "l">>)

\* f"{v}": the text of v inside an f-string
Format(v) ==
    CASE v.kind = "str" -> v.s
      [] v.kind = "none" -> <<"N", "o", "n", "e">>
      [] OTHER -> <<"repr">>

(***************************************************************************)
(* create_fallback_block_json (generate_block_json_utils.py 254-281)       *)
(***************************************************************************)
\* as FallbackBlock, but a block that has an ssml keeps it
FallbackBlockKeepsSsml(block_data) ==
    Dict(<< Entry("text", Get(block_data, "text", EmptyStr)),
            Entry("words", Get(block_data, "words", List(<<>>))),
            Entry("bounding_boxes", Get(block_data, "bounding_boxes", List(<<>>))),
            Entry("ssml", Get(block_data, "ssml",
                              Str(SsmlOpen \o Format(Get(block_data, "text", EmptyStr))
                                           \o SsmlClose))),
            Entry("dialog", StrFalse),
            Entry("person_type", StrNull) >>)

\* lines 264-271: the record built for one block
FallbackBlock(block_data) ==
    Dict(<< Entry("text", Get(block_data, "text", EmptyStr)),
            Entry("words", Get(block_data, "words", List(<<>>))),
            Entry("bounding_boxes", Get(block_data, "bounding_boxes", List(<<>>))),
            Entry("ssml", Str(SsmlOpen \o Format(Get(block_data, "text", EmptyStr))
                                       \o SsmlClose)),
            Entry("dialog", StrFalse),
            Entry("person_type", StrNull) >>)

\* lines 259-281.  json.loads raising, blocks.items() on a value that is no
\* dict and block_data.get on a value that is no dict all end in "return None".
create_fallback_block_json(blocks_input_json_str) ==
    LET loaded == JsonLoads(blocks_input_json_str)
        blocks == loaded.val
    IN  IF loaded.exc # "none" THEN None
        ELSE IF blocks.kind # "dict" THEN None
        ELSE IF \E i \in 1..Len(blocks.entries) : blocks.entries[i].v.kind # "dict"
             THEN None
        ELSE Dict([i \in 1..Len(blocks.entries) |->
                     Entry(blocks.entries[i].k, FallbackBlock(blocks.entries[i].v))])

(***************************************************************************)
(* annotate_image_with_words (image_processing_utils.py 22-51): the part   *)
(* that fills block_details.  A word is the 8-tuple of line 30; the        *)
(* rectangle [(x0, y0), (x1, y1)] is one symbol.                           *)
(***************************************************************************)
Word(word, block_no, line_no, word_no, rect) ==
    [word |-> word, block_no |-> block_no, line_no |-> line_no,
     word_no |-> word_no, rect |-> rect]

EmptyBlock ==
    Dict(<< Entry("text", EmptyStr), Entry("words", List(<<>>)),
            Entry("bounding_boxes", List(<<>>)) >>)

\* as AddWord, but the rectangle of the word that opens a block is lost
AddWordLosesFirstBox(bd, w) ==
    LET d0 == IF HasKey(bd, w.block_no) THEN bd ELSE SetItem(bd, w.block_no, EmptyBlock)
        b0 == Item(d0, w.block_no)
        b1 == SetItem(b0, "text", Str(Item(b0, "text").s \o <<w.word, " ">>))
        b2 == SetItem(b1, "words", List(Append(Item(b1, "words").items, Str(<<w.word>>))))
        b3 == IF HasKey(bd, w.block_no)
              THEN SetItem(b2, "bounding_boxes",
                           List(Append(Item(b2, "bounding_boxes").items, Str(<<w.rect>>))))
              ELSE b2
    IN  SetItem(d0, w.block_no, b3)

\* lines 35-44, one iteration of the loop of line 29
AddWord(bd, w) ==
    LET d0 == IF HasKey(bd, w.block_no) THEN bd ELSE SetItem(bd, w.block_no, EmptyBlock)
        b0 == Item(d0, w.block_no)
        b1 == SetItem(b0, "text", Str(Item(b0, "text").s \o <<w.word, " ">>))
        b2 == SetItem(b1, "words", List(Append(Item(b1, "words").items, Str(<<w.word>>))))
        b3 == SetItem(b2, "bounding_boxes",
                      List(Append(Item(b2, "bounding_boxes").items, Str(<<w.rect>>))))
    IN  SetItem(d0, w.block_no, b3)

RECURSIVE AddWords(_, _)
AddWords(bd, words) ==
    IF words = <<>> THEN bd ELSE AddWords(AddWord(bd, Head(words)), Tail(words))

\* str.strip(): leading and trailing blanks removed
RECURSIVE StripLeft(_)
StripLeft(s) == IF s # <<>> /\ Head(s) = " " THEN StripLeft(Tail(s)) ELSE s
RECURSIVE StripRight(_)
StripRight(s) ==
    IF s # <<>> /\ s[Len(s)] = " " THEN StripRight(SubSeq(s, 1, Len(s) - 1)) ELSE s
Strip(s) == StripRight(StripLeft(s))

\* lines 29-51: block_details after the call, from the block_details given
annotate_image_with_words(words, bd) ==
    LET filled == AddWords(bd, words)
    IN  Dict([i \in 1..Len(filled.entries) |->
                Entry(filled.entries[i].k,
                      SetItem(filled.entries[i].v, "text",
                              Str(Strip(Item(filled.entries[i].v, "text").s))))])

\* The word lists page.get_text("words") gives for the pages of the documents
\* of the model: a page without text, a one-block page, a two-block page.
PageWordLists ==
    { <<>>,
      << Word("Hi", 0, 0, 0, "r1") >>,
      << Word("Once", 0, 0, 0, "r1"), Word("upon", 0, 0, 1, "r2"),
         Word("Page", 1, 0, 0, "r3") >> }

(***************************************************************************)
(* Voices (saving_utils.py 6-13, 60).                                      *)
(***************************************************************************)
young_boy == <<"y", "o", "u", "n", "g", " ", "b", "o", "y">>
old_man == <<"o", "l", "d", " ", "m", "a", "n">>
young_girl == <<"y", "o", "u", "n", "g", " ", "g", "i", "r", "l">>
old_woman == <<"o", "l", "d", " ", "w", "o", "m", "a", "n">>
middle_aged_man == <<"m", "i", "d", "d", "l", "e", " ", "a", "g", "e", "d", " ", "m", "a", "n">>
middle_aged_woman ==
    <<"m", "i", "d", "d", "l", "e", " ", "a", "g", "e", "d", " ", "w", "o", "m", "a", "n">>

UpperCase == <<"A", "B", "C", "D", "E", "F", "G", "H", "I", "J", "K", "L", "M",
               "N", "O", "P", "Q", "R", "S", "T", "U", "V", "W", "X", "Y", "Z">>
LowerCase == <<"a", "b", "c", "d", "e", "f", "g", "h", "i", "j", "k", "l", "m",
               "n", "o", "p", "q", "r", "s", "t", "u", "v", "w", "x", "y", "z">>
LowerChar(c) ==
    IF \E i \in 1..Len(UpperCase) : UpperCase[i] = c
    THEN LowerCase[CHOOSE i \in 1..Len(UpperCase) : UpperCase[i] = c]
    ELSE c
\* str.lower()
Lower(s) == [i \in 1..Len(s) |-> LowerChar(s[i])]

\* PERSON_TYPE_TO_VOICE.get(key, "Joanna"), key a str or None
PERSON_TYPE_TO_VOICE(key) ==
    IF key.kind # "str" THEN "Joanna"
    ELSE CASE key.s = young_boy -> "Justin"
           [] key.s = old_man -> "Matthew"
           [] key.s = young_girl -> "Ivy"
           [] key.s = old_woman -> "Kimberly"
           [] key.s = middle_aged_man -> "Joey"
           [] key.s = middle_aged_woman -> "Joanna"
           [] OTHER -> "Joanna"

\* the lookup made with person_type as given, without lower()
VoiceForCaseSensitive(person_type) ==
    IF ~Truthy(person_type) THEN [exc |-> "none", voice |-> PERSON_TYPE_TO_VOICE(None)]
    ELSE IF person_type.kind # "str" THEN [exc |-> "AttributeError", voice |-> "none"]
    ELSE [exc |-> "none", voice |-> PERSON_TYPE_TO_VOICE(person_type)]

\* line 60; person_type.lower() raises AttributeError for a truthy value
\* that is no str
VoiceFor(person_type) ==
    IF ~Truthy(person_type) THEN [exc |-> "none", voice |-> PERSON_TYPE_TO_VOICE(None)]
    ELSE IF person_type.kind # "str" THEN [exc |-> "AttributeError", voice |-> "none"]
    ELSE [exc |-> "none", voice |-> PERSON_TYPE_TO_VOICE(Str(Lower(person_type.s)))]

(***************************************************************************)
(* The enrichment provider.  A call of model.generate_content ends in one  *)
(* of the failures of lines 170-223 or in a text whose candidate parses;   *)
(* Replies are the parsed values json.loads can give on line 191.          *)
(* clean_llm_response_to_json_string slices from the first "{" to the last *)
(* "}", so a candidate that holds an object is parsed as an object: a      *)
(* parsed list holds no object, and the other replies are scalars or null. *)
(***************************************************************************)
SsmlHi == Str(SsmlOpen \o <<"Hi">> \o SsmlClose)

\* A block of a reply: its text and whichever of the three added fields
\* the provider gave.
ReplyBlock(fields) == Dict(<<Entry("text", Str(<<"Hi">>))>> \o fields)

ReplyBlockChoices ==
    { ReplyBlock(<<>>),
      ReplyBlock(<<Entry("ssml", EmptyStr), Entry("dialog", StrFalse),
                   Entry("person_type", StrNull)>>),
      ReplyBlock(<<Entry("ssml", SsmlHi), Entry("dialog", StrFalse),
                   Entry("person_type", StrNull)>>),
      ReplyBlock(<<Entry("ssml", SsmlHi), Entry("dialog", StrFalse),
                   Entry("person_type", Str(young_boy))>>),
      ReplyBlock(<<Entry("ssml", SsmlHi), Entry("dialog", StrTrue),
                   Entry("person_type",
                         Str(<<"Y", "o", "u", "n", "g", " ", "B", "o", "y">>))>>),
      ReplyBlock(<<Entry("ssml", SsmlHi), Entry("dialog", StrTrue),
                   Entry("person_type", Str(<<"r", "o", "b", "o", "t">>))>>),
      ReplyBlock(<<Entry("ssml", SsmlHi), Entry("dialog", StrTrue)>>),
      ReplyBlock(<<Entry("ssml", SsmlHi), Entry("dialog", StrTrue),
                   Entry("person_type", Num(3))>>) }

\* the ids a reply may use: "0" .. MaxBlocks-1
BlockIds == 0..(MaxBlocks - 1)

RECURSIVE SortedSeq(_)
SortedSeq(S) ==
    IF S = {} THEN <<>>
    ELSE LET m == CHOOSE x \in S : \A y \in S : x <= y
         IN  <<m>> \o SortedSeq(S \ {m})

\* every object that maps some of the ids, in id order, to reply blocks
DictReplies ==
    { Dict([i \in 1..Cardinality(K) |->
              Entry(ToString(SortedSeq(K)[i]), f[SortedSeq(K)[i]])]) :
        <<K, f>> \in UNION { {<<K0, f0>> : f0 \in [K0 -> ReplyBlockChoices]} :
                             K0 \in SUBSET BlockIds } }

OtherReplies ==
    { None, Num(7), Str(<<"h">>), List(<<>>), List(<<Num(1)>>),
      Dict(<<Entry("0", Str(<<"Hi">>))>>) }

Replies == DictReplies \cup OtherReplies

\* the replies enumerated for one chunk of chunk_and_process_json: a block
\* with its three fields or without them, under any of the ids
ChunkBlockChoices ==
    { ReplyBlock(<<>>),
      ReplyBlock(<<Entry("ssml", SsmlHi), Entry("dialog", StrFalse),
                   Entry("person_type", StrNull)>>) }
ChunkReplies ==
    { Dict([i \in 1..Cardinality(K) |->
              Entry(ToString(SortedSeq(K)[i]), f[SortedSeq(K)[i]])]) :
        <<K, f>> \in UNION { {<<K0, f0>> : f0 \in [K0 -> ChunkBlockChoices]} :
                             K0 \in SUBSET BlockIds } }
      \cup OtherReplies

ProviderReplies == IF chPc = "idle" THEN Replies ELSE ChunkReplies

\* the ways one attempt fails: generate_content raising (line 216), no
\* candidate or no parts (170), an empty candidate string (185), the
\* candidate not parsing (194)
AttemptFailures == {"exception", "blocked", "empty", "badjson"}

(***************************************************************************)
(* generate_block_json (generate_block_json_utils.py 126-224)              *)
(***************************************************************************)
MAX_RETRIES == 3

\* the caller passes its argument and waits for "returned" or "raised"
GenCall(arg) ==
    /\ genPc = "idle"
    /\ genPc' = "setup"
    /\ genArg' = arg
    /\ attempt' = 0
    /\ history' = <<>>
    /\ genResult' = None

GenIdle ==
    /\ genPc' = "idle"
    /\ genArg' = None
    /\ attempt' = 0
    /\ history' = <<>>
    /\ genResult' = None

\* lines 137-150: the import and Part.from_data; any exception there gives
\* the fallback enrichment of the argument as the result
GenSetup ==
    /\ genPc = "setup"
    /\ \E ok \in BOOLEAN :
         IF ok
         THEN /\ genPc' = "model"
              /\ UNCHANGED genResult
         ELSE /\ genPc' = "returned"
              /\ genResult' = create_fallback_block_json(genArg)
    /\ UNCHANGED <<genArg, attempt, history>>

\* lines 152-158: the prompt and the GenerativeModel, outside every try
GenModel ==
    /\ genPc = "model"
    /\ \E ok \in BOOLEAN : genPc' = IF ok THEN "loop" ELSE "raised"
    /\ UNCHANGED <<genArg, attempt, history, genResult>>

\* what the loop does after a failed attempt: "continue" on lines 178 and
\* 188, whatever the attempt; on lines 197-202, 210-215 and 218-223 another
\* round only while attempt < MAX_RETRIES - 1.  Running out of rounds ends
\* the loop, and line 224 returns None as lines 202, 215 and 223 do.
AfterFailureGivesUp(a) == "returned"
AfterFailure(a) == IF a + 1 < MAX_RETRIES THEN "loop" ELSE "returned"

\* lines 160-223: one round of the loop, one call of the provider
GenAttempt ==
    /\ genPc = "loop"
    /\ attempt < MAX_RETRIES
    /\ \/ \E reply \in ProviderReplies :
            /\ history' = Append(history, [ok |-> TRUE, reply |-> reply])
            /\ genResult' = reply
            /\ genPc' = "returned"
            /\ UNCHANGED attempt
       \/ \E failure \in AttemptFailures :
            /\ history' = Append(history, [ok |-> FALSE])
            /\ genPc' = AfterFailure(attempt)
            /\ attempt' = attempt + 1
            /\ genResult' = None
    /\ UNCHANGED genArg

(***************************************************************************)
(* save_audio_and_speech_marks (saving_utils.py 35-102)                    *)
(***************************************************************************)
\* A block id as line 85 binds it: a key of the dict (a str) or an index of
\* enumerate (an int).
StrId(v) == [t |-> "str", v |-> v]
IntId(v) == [t |-> "int", v |-> v]
\* str(block_key)
StrOf(id) == IF id.t = "int" THEN ToString(id.v) ELSE id.v

\* the membership test never succeeding: nothing is attached
AttachTimingNever(bj, block_key, marks) == [exc |-> "none", bj |-> bj]

\* lines 54-55 and 99-100:
\*   if str(block_key) in block_json: block_json[str(block_key)]["timing"] = marks
\* A dict is searched by key, a list by element, a str by substring; None is
\* not iterable.  Indexing a list or a str by a str raises TypeError.
AttachTiming(bj, block_key, marks) ==
    LET key == StrOf(block_key)
    IN  CASE bj.kind = "dict" ->
               IF ~HasKey(bj, key) THEN [exc |-> "none", bj |-> bj]
               ELSE IF Item(bj, key).kind # "dict" THEN [exc |-> "TypeError", bj |-> bj]
               ELSE [exc |-> "none",
                     bj |-> SetItem(bj, key, SetItem(Item(bj, key), "timing", marks))]
          [] bj.kind = "list" ->
               IF \E i \in 1..Len(bj.items) : bj.items[i] = Str(<<key>>)
               THEN [exc |-> "TypeError", bj |-> bj]
               ELSE [exc |-> "none", bj |-> bj]
          [] bj.kind = "str" ->
               IF \E i \in 1..Len(bj.s) : bj.s[i] = key
               THEN [exc |-> "TypeError", bj |-> bj]
               ELSE [exc |-> "none", bj |-> bj]
          [] OTHER -> [exc |-> "TypeError", bj |-> bj]

\* The lines of the timing stream of the provider: a mark, or a line that
\* json.loads rejects.
Line(ok, mark) == [ok |-> ok, mark |-> mark]
MarkStreams ==
    { <<>>,
      << Line(TRUE, "m1"), Line(TRUE, "m2") >>,
      << Line(TRUE, "m2"), Line(FALSE, "x"), Line(TRUE, "m1") >> }

\* lines 85-91: the lines that parse, in the order of the stream
RECURSIVE ParseMarks(_)
ParseMarks(stream) ==
    IF stream = <<>> THEN <<>>
    ELSE IF Head(stream).ok
         THEN <<Str(<<Head(stream).mark>>)>> \o ParseMarks(Tail(stream))
         ELSE ParseMarks(Tail(stream))

\* lines 40-57, polly_client is None: empty files and an empty timing
SaveWithoutProvider(bj, block_key) == AttachTiming(bj, block_key, List(<<>>))

\* lines 84-100, after both synthesize_speech calls returned
SaveWithProvider(bj, block_key, stream) ==
    AttachTiming(bj, block_key, List(ParseMarks(stream)))

(***************************************************************************)
(* process_tts_request (tts_service.py 25-139)                             *)
(***************************************************************************)
env == <<polly, numPages>>
otherVars == <<chVars, fbVars, fnVars>>

\* an exception reaching "except Exception" on line 125
Raise(e, page) == pc' = "except" /\ exc' = e /\ excPage' = page
Goto(p) == pc' = p /\ UNCHANGED <<exc, excPage>>
Did(op) == ops' = ops \cup {<<page_number, op>>}

\* lines 30-34: the output directory
SetupOutputDir ==
    /\ pc = "start"
    /\ \E ok \in BOOLEAN : IF ok THEN Goto("savetemp") ELSE Raise("OSError", -1)
    /\ UNCHANGED <<env, fallbackTaken, retriesExhausted, page_number, tempCreated, tempExists, removeResult, block_details,
                   block_json, entryIdx, audio_metadata, vertex_path, results, ret,
                   outcome, ops, synthLog, genVars, otherVars>>

\* lines 37-41: the temporary copy.  NamedTemporaryFile may raise before
\* temp_pdf is bound; reading the upload or writing may raise after it.
SaveTempPdf ==
    /\ pc = "savetemp"
    /\ \E how \in {"ok", "nofile", "writefails"} :
         CASE how = "ok" ->
                /\ tempCreated' = TRUE /\ tempExists' = TRUE /\ Goto("open")
           [] how = "nofile" ->
                /\ UNCHANGED <<tempCreated, tempExists>> /\ Raise("OSError", -1)
           [] how = "writefails" ->
                /\ tempCreated' = TRUE /\ tempExists' = TRUE /\ Raise("OSError", -1)
    /\ UNCHANGED <<env, fallbackTaken, retriesExhausted, page_number, removeResult, block_details, block_json, entryIdx,
                   audio_metadata, vertex_path, results, ret, outcome, ops, synthLog,
                   genVars, otherVars>>

\* lines 43-47: results = [], fitz.open, the first round of the page loop
OpenPdf ==
    /\ pc = "open"
    /\ results' = <<>>
    /\ \E ok \in BOOLEAN :
         IF ~ok THEN Raise("FileDataError", -1)
         ELSE IF numPages = 0 THEN Goto("return")
         ELSE Goto("page")
    /\ page_number' = 0
    /\ UNCHANGED <<env, fallbackTaken, retriesExhausted, tempCreated, tempExists, removeResult, block_details, block_json,
                   entryIdx, audio_metadata, vertex_path, ret, outcome, ops, synthLog,
                   genVars, otherVars>>

\* lines 48-61: the page is rendered and written, its words are grouped
\* into block_details
LoadPage ==
    /\ pc = "page"
    /\ Did("render")
    /\ \/ /\ Raise("RenderError", page_number)
          /\ UNCHANGED block_details
       \/ \E words \in PageWordLists :
            /\ block_details' = annotate_image_with_words(words, Dict(<<>>))
            /\ Goto("persist")
    /\ UNCHANGED <<env, fallbackTaken, retriesExhausted, page_number, tempCreated, tempExists, removeResult, block_json,
                   entryIdx, audio_metadata, vertex_path, results, ret, outcome, synthLog,
                   genVars, otherVars>>

\* lines 64-66: save_annotated_image and save_block_details_as_json
SaveBlockDetails ==
    /\ pc = "persist"
    /\ Did("persist")
    /\ \E ok \in BOOLEAN : IF ok THEN Goto("enrich") ELSE Raise("OSError", page_number)
    /\ UNCHANGED <<env, fallbackTaken, retriesExhausted, page_number, tempCreated, tempExists, removeResult, block_details,
                   block_json, entryIdx, audio_metadata, vertex_path, results, ret,
                   outcome, synthLog, genVars, otherVars>>

\* line 70: generate_block_json(base64_img, block_details); the argument is
\* the dict itself, not its json.dumps text
EnrichCall ==
    /\ pc = "enrich"
    /\ Did("enrich")
    /\ GenCall(block_details)
    /\ Goto("enriching")
    /\ UNCHANGED <<env, fallbackTaken, retriesExhausted, page_number, tempCreated, tempExists, removeResult, block_details,
                   block_json, entryIdx, audio_metadata, vertex_path, results, ret,
                   outcome, synthLog, otherVars>>

\* line 70, the call returning or raising
EnrichReturn ==
    /\ pc = "enriching"
    /\ \/ /\ genPc = "returned"
          /\ block_json' = genResult
          /\ fallbackTaken' = (history = <<>>)
          /\ retriesExhausted' = (/\ Len(history) = MAX_RETRIES
                                   /\ \A i \in 1..Len(history) : ~history[i].ok)
          /\ Goto("entries")
       \/ /\ genPc = "raised"
          /\ UNCHANGED <<block_json, fallbackTaken, retriesExhausted>>
          /\ Raise("ProviderError", page_number)
    /\ GenIdle
    /\ UNCHANGED <<env, page_number, tempCreated, tempExists, removeResult, block_details,
                   entryIdx, audio_metadata, vertex_path, results, ret, outcome, ops,
                   synthLog, otherVars>>

\* line 83: block_json.items() for a dict, enumerate(block_json) otherwise;
\* enumerate raises TypeError for a value that cannot be iterated
Iterable(bj) == bj.kind \in {"dict", "list", "str"}
NumEntries(bj) ==
    CASE bj.kind = "dict" -> Len(bj.entries)
      [] bj.kind = "list" -> Len(bj.items)
      [] bj.kind = "str" -> Len(bj.s)
      [] OTHER -> 0
EntryId(bj, i) == IF bj.kind = "dict" THEN StrId(bj.entries[i].k) ELSE IntId(i - 1)
EntryData(bj, i) ==
    CASE bj.kind = "dict" -> bj.entries[i].v
      [] bj.kind = "list" -> bj.items[i]
      [] OTHER -> Str(<<bj.s[i]>>)

\* lines 82-83
BeginSynthesis ==
    /\ pc = "entries"
    /\ audio_metadata' = <<>>
    /\ entryIdx' = 0
    /\ synthLog' = <<>>
    /\ IF Iterable(block_json) THEN Goto("blocks") ELSE Raise("TypeError", page_number)
    /\ UNCHANGED <<env, fallbackTaken, retriesExhausted, page_number, tempCreated, tempExists, removeResult, block_details,
                   block_json, vertex_path, results, ret, outcome, ops, genVars, otherVars>>

\* lines 94-103, after save_audio_and_speech_marks returned bj: vertex_path
\* is bound, the trimmed JSON is written, the block gets its metadata entry
AfterSave(id, data, bj, voice, stream) ==
    /\ block_json' = bj
    /\ vertex_path' = page_number
    /\ Did("synthesize")
    /\ synthLog' = Append(synthLog, [id |-> id, voice |-> voice, stream |-> stream,
                                     dialog |-> Get(data, "dialog", None)])
    /\ \/ /\ audio_metadata' = Append(audio_metadata, id)
          /\ entryIdx' = entryIdx + 1
          /\ Goto("blocks")
       \/ /\ UNCHANGED <<audio_metadata, entryIdx>>
          /\ Raise("OSError", page_number)

\* lines 90-92: the call of save_audio_and_speech_marks for one block
Synthesize(id, data) ==
    IF ~polly
    THEN AfterSave(id, data, SaveWithoutProvider(block_json, id).bj, "none", <<>>)
    ELSE LET v == VoiceFor(Get(data, "person_type", None))
         IN  IF v.exc # "none"
             THEN /\ Raise(v.exc, page_number)
                  /\ UNCHANGED <<block_json, vertex_path, ops, synthLog, audio_metadata,
                                 entryIdx>>
             ELSE \/ /\ Raise("ProviderError", page_number)
                     /\ Did("synthesize")
                     /\ UNCHANGED <<block_json, vertex_path, synthLog, audio_metadata,
                                    entryIdx>>
                  \/ \E stream \in MarkStreams :
                       AfterSave(id, data, SaveWithProvider(block_json, id, stream).bj,
                                 v.voice, stream)

\* lines 85-103: one round of the loop over the entries
SynthesizeBlock ==
    /\ pc = "blocks"
    /\ entryIdx < NumEntries(block_json)
    /\ LET id == EntryId(block_json, entryIdx + 1)
           data == EntryData(block_json, entryIdx + 1)
       IN  IF data.kind # "dict"
           THEN /\ Raise("AttributeError", page_number)
                /\ UNCHANGED <<block_json, vertex_path, ops, synthLog, audio_metadata,
                               entryIdx>>
           ELSE IF ~Truthy(Get(data, "ssml", None))
           THEN /\ entryIdx' = entryIdx + 1
                /\ Goto("blocks")
                /\ UNCHANGED <<block_json, vertex_path, ops, synthLog, audio_metadata>>
           ELSE Synthesize(id, data)
    /\ UNCHANGED <<env, fallbackTaken, retriesExhausted, page_number, tempCreated, tempExists, removeResult, block_details,
                   results, ret, outcome, genVars, otherVars>>

\* lines 106-109: the metadata file of the page
SavePageMetadata ==
    /\ pc = "blocks"
    /\ entryIdx = NumEntries(block_json)
    /\ Did("metadata")
    /\ \E ok \in BOOLEAN : IF ok THEN Goto("append") ELSE Raise("OSError", page_number)
    /\ UNCHANGED <<env, fallbackTaken, retriesExhausted, page_number, tempCreated, tempExists, removeResult, block_details,
                   block_json, entryIdx, audio_metadata, vertex_path, results, ret,
                   outcome, synthLog, genVars, otherVars>>

\* the PageResult of lines 111-117; a path is named by the page it is built from
PageResult(page, vertex) ==
    [page_number |-> page, annotated_image_path |-> page, json_path |-> page,
     vertex_trimmed_path |-> vertex, metadata_path |-> page]

\* lines 111-117 and the next round of line 47.  vertex_path is bound only
\* on line 94: reading it unbound raises UnboundLocalError.  The next round
\* rebinds block_details (60), block_json (70) and audio_metadata (82) before
\* it reads them, so they start it as they started the first; vertex_path
\* is not rebound before line 115 reads it and keeps its value.
AppendPageResult ==
    /\ pc = "append"
    /\ IF vertex_path = -1
       THEN /\ Raise("UnboundLocalError", page_number)
            /\ UNCHANGED <<results, page_number, block_details, block_json, fallbackTaken, retriesExhausted,
                           entryIdx, audio_metadata, synthLog>>
       ELSE /\ results' = Append(results, PageResult(page_number, vertex_path))
            /\ IF page_number + 1 < numPages
               THEN /\ page_number' = page_number + 1
                    /\ Goto("page")
                    /\ block_details' = None
                    /\ block_json' = None
                    /\ fallbackTaken' = FALSE
                    /\ retriesExhausted' = FALSE
                    /\ entryIdx' = 0
                    /\ audio_metadata' = <<>>
                    /\ synthLog' = <<>>
               ELSE /\ Goto("return")
                    /\ UNCHANGED <<page_number, block_details, block_json, fallbackTaken, retriesExhausted,
                                   entryIdx, audio_metadata, synthLog>>
    /\ UNCHANGED <<env, tempCreated, tempExists, removeResult, vertex_path, ret, outcome,
                   ops, genVars, otherVars>>

\* lines 119-123
ReturnSuccess ==
    /\ pc = "return"
    /\ ret' = [status |-> "success", message |-> Len(results), results |-> results]
    /\ Goto("finally")
    /\ UNCHANGED <<env, fallbackTaken, retriesExhausted, page_number, tempCreated, tempExists, removeResult, block_details,
                   block_json, entryIdx, audio_metadata, vertex_path, results, outcome,
                   ops, synthLog, genVars, otherVars>>

\* lines 125-131
HandleException ==
    /\ pc = "except"
    /\ ret' = [status |-> "error", message |-> exc,
               errors |-> [process_tts_request |-> exc]]
    /\ Goto("finally")
    /\ UNCHANGED <<env, fallbackTaken, retriesExhausted, page_number, tempCreated, tempExists, removeResult, block_details,
                   block_json, entryIdx, audio_metadata, vertex_path, results, outcome,
                   ops, synthLog, genVars, otherVars>>

\* the ways os.remove ends: the file is removed, PermissionError, another OSError
RemoveOutcomes == {"ok", "PermissionError", "OSError"}

\* lines 133-139, entered with `remove` as the value of "if temp_pdf":
\* only PermissionError is caught; another error of os.remove leaves the
\* finally block and replaces the pending return
FinallyBlock(remove) ==
    /\ pc = "finally"
    /\ pc' = "done"
    /\ IF ~remove
       THEN /\ outcome' = "returned"
            /\ UNCHANGED <<tempExists, removeResult, ret>>
       ELSE /\ \E how \in RemoveOutcomes :
                 /\ removeResult' = how
                 /\ CASE how = "ok" ->
                        tempExists' = FALSE /\ outcome' = "returned" /\ UNCHANGED ret
                   [] how = "PermissionError" ->
                        outcome' = "returned" /\ UNCHANGED <<tempExists, ret>>
                   [] how = "OSError" ->
                        outcome' = "raised" /\ ret' = None /\ UNCHANGED tempExists
    /\ UNCHANGED <<env, fallbackTaken, retriesExhausted, page_number, tempCreated, block_details, block_json,
                   entryIdx, audio_metadata, vertex_path, results, exc, excPage, ops,
                   synthLog, genVars, otherVars>>

\* the removal placed at the end of the try body: skipped after an exception
FinallyOnlyAfterSuccess == FinallyBlock(tempCreated /\ exc = "none")

Finally == FinallyBlock(tempCreated)

\* generate_block_json running inside line 70
GenStep ==
    /\ \/ GenSetup
       \/ GenModel
       \/ GenAttempt
    /\ UNCHANGED <<ttsVars, otherVars>>

GenInit ==
    /\ genPc = "idle"
    /\ genArg = None
    /\ attempt = 0
    /\ history = <<>>
    /\ genResult = None

ChunkIdle ==
    /\ chPc = "idle"
    /\ chArg = None
    /\ chunk_size = 0
    /\ block_keys = <<>>
    /\ chI = 0
    /\ final_output = None
    /\ submitted = <<>>
    /\ chunkResults = <<>>
    /\ chResult = None

FallbackIdle ==
    /\ fbPc = "idle"
    /\ fbIn = None
    /\ fbOut = None
    /\ fbOut2 = None

VoiceIdle ==
    /\ vcPc = "idle"
    /\ vcIn = <<>>
    /\ vcOut = <<>>

ExtractIdle ==
    /\ exPc = "idle"
    /\ exWords = <<>>
    /\ exIdx = 0
    /\ exDetails = None

CleanIdle ==
    /\ clPc = "idle"
    /\ clIn = <<>>
    /\ clOut = <<>>

TtsIdle ==
    /\ pc = "idle"
    /\ polly = FALSE
    /\ numPages = 0
    /\ page_number = 0
    /\ tempCreated = FALSE
    /\ tempExists = FALSE
    /\ removeResult = "none"
    /\ block_details = None
    /\ block_json = None
    /\ fallbackTaken = FALSE
    /\ retriesExhausted = FALSE
    /\ entryIdx = 0
    /\ audio_metadata = <<>>
    /\ vertex_path = -1
    /\ results = <<>>
    /\ exc = "none"
    /\ excPage = -1
    /\ ret = None
    /\ outcome = "running"
    /\ ops = {}
    /\ synthLog = <<>>

\* one request: a document of up to MaxPages pages, with or without a
\* synthesis provider
Init ==
    /\ pc = "start"
    /\ polly \in BOOLEAN
    /\ numPages \in 0..MaxPages
    /\ page_number = 0
    /\ tempCreated = FALSE
    /\ tempExists = FALSE
    /\ removeResult = "none"
    /\ block_details = None
    /\ block_json = None
    /\ fallbackTaken = FALSE
    /\ retriesExhausted = FALSE
    /\ entryIdx = 0
    /\ audio_metadata = <<>>
    /\ vertex_path = -1
    /\ results = <<>>
    /\ exc = "none"
    /\ excPage = -1
    /\ ret = None
    /\ outcome = "running"
    /\ ops = {}
    /\ synthLog = <<>>
    /\ GenInit
    /\ ChunkIdle
    /\ FallbackIdle
    /\ VoiceIdle
    /\ ExtractIdle
    /\ CleanIdle

Next ==
    \/ SetupOutputDir
    \/ SaveTempPdf
    \/ OpenPdf
    \/ LoadPage
    \/ SaveBlockDetails
    \/ EnrichCall
    \/ GenStep
    \/ EnrichReturn
    \/ BeginSynthesis
    \/ SynthesizeBlock
    \/ SavePageMetadata
    \/ AppendPageResult
    \/ ReturnSuccess
    \/ HandleException
    \/ Finally

Spec == Init /\ [][Next]_vars

(***************************************************************************)
(* chunk_and_process_json (generate_block_json_utils.py 226-252)           *)
(***************************************************************************)
OUTPUT_CHUNK_SIZE == 1

\* a block as block extraction leaves it
RawBlock ==
    Dict(<< Entry("text", Str(<<"Hi">>)), Entry("words", List(<<Str(<<"Hi">>)>>)),
            Entry("bounding_boxes", List(<<Str(<<"r1">>)>>)) >>)

\* the arguments enumerated: the JSON text of a block map with up to
\* MaxKeys blocks, of a list, a str that is no JSON, and a dict
ChunkInputs ==
    { JsonDumps(Dict([i \in 1..n |-> Entry(ToString(i - 1), RawBlock)])) :
        n \in 0..MaxKeys }
      \cup { JsonDumps(List(<<>>)), Str(<<"oops">>), Dict(<<>>) }
ChunkSizes == (-1)..MaxKeys

\* block_keys[i : i + chunk_size], 0-based as in the source
Slice(keys, i, size) ==
    SubSeq(keys, i + 1, IF i + size < Len(keys) THEN i + size ELSE Len(keys))

\* {key: all_blocks[key] for key in chunk_keys}
SubDict(d, keys) == Dict([j \in 1..Len(keys) |-> Entry(keys[j], Item(d, keys[j]))])

\* as ChunkReturn, but a failure returns what was merged so far
ChunkReturnPartial(v) ==
    /\ chPc' = "done"
    /\ chResult' = IF v = None /\ chPc = "wait" THEN final_output ELSE v

\* line 245 / lines 243, 249, 252
ChunkReturn(v) == chPc' = "done" /\ chResult' = v

\* lines 229-233: the argument is parsed; json.loads raising, .keys() on a
\* value that is no dict and range() with step 0 all end in "return None";
\* an empty range goes to line 245
ChunkStart ==
    /\ chPc = "start"
    /\ LET loaded == JsonLoads(chArg)
       IN  IF loaded.exc # "none" \/ loaded.val.kind # "dict" \/ chunk_size = 0
           THEN /\ ChunkReturn(None)
                /\ UNCHANGED <<block_keys, final_output>>
           ELSE /\ block_keys' = Keys(loaded.val)
                /\ final_output' = Dict(<<>>)
                /\ IF chunk_size < 0 \/ Len(loaded.val.entries) = 0
                   THEN ChunkReturn(Dict(<<>>))
                   ELSE chPc' = "loop" /\ UNCHANGED chResult
    /\ chI' = 0
    /\ UNCHANGED <<chArg, chunk_size, submitted, chunkResults, ttsVars, genVars, fbVars, fnVars>>

\* lines 234-238: the next chunk goes to generate_block_json
ChunkSubmit ==
    /\ chPc = "loop"
    /\ LET chunk_keys == Slice(block_keys, chI, chunk_size)
           current_chunk == SubDict(JsonLoads(chArg).val, chunk_keys)
       IN  /\ submitted' = Append(submitted, chunk_keys)
           /\ GenCall(JsonDumps(current_chunk))
    /\ chPc' = "wait"
    /\ UNCHANGED <<chArg, chunk_size, block_keys, chI, final_output, chunkResults,
                   chResult, ttsVars, fbVars, fnVars>>

\* how generate_block_json ended for the chunk: it raised, returned None,
\* returned the empty object or another value that is false on line 239, a
\* value update() takes (a dict with entries), or a true value that is no
\* dict
ChunkOutcome ==
    CASE genPc = "raised" -> "raised"
      [] genResult = None -> "none"
      [] genResult = Dict(<<>>) -> "emptyobject"
      [] ~Truthy(genResult) -> "empty"
      [] genResult.kind = "dict" -> "dict"
      [] OTHER -> "other"

\* lines 239-245: the result of the chunk is merged, or the function gives
\* up.  An exception of generate_block_json, and update() raising on a
\* result that is no dict, reach line 250.
ChunkMerge ==
    /\ chPc = "wait"
    /\ genPc \in {"returned", "raised"}
    /\ IF genPc = "raised" \/ ~Truthy(genResult) \/ genResult.kind # "dict"
       THEN /\ ChunkReturn(None)
            /\ UNCHANGED <<final_output, chI>>
       ELSE /\ final_output' = Update(final_output, genResult)
            /\ chI' = chI + chunk_size
            /\ IF chI + chunk_size < Len(block_keys)
               THEN chPc' = "loop" /\ UNCHANGED chResult
               ELSE ChunkReturn(Update(final_output, genResult))
    /\ chunkResults' = Append(chunkResults, ChunkOutcome)
    /\ GenIdle
    /\ UNCHANGED <<chArg, chunk_size, block_keys, submitted, ttsVars, fbVars, fnVars>>

InitChunk ==
    /\ chPc = "start"
    /\ chArg \in ChunkInputs
    /\ chunk_size \in ChunkSizes
    /\ block_keys = <<>>
    /\ chI = 0
    /\ final_output = None
    /\ submitted = <<>>
    /\ chunkResults = <<>>
    /\ chResult = None
    /\ TtsIdle
    /\ GenInit
    /\ FallbackIdle
    /\ VoiceIdle
    /\ ExtractIdle
    /\ CleanIdle

NextChunk ==
    \/ ChunkStart
    \/ ChunkSubmit
    \/ GenStep
    \/ ChunkMerge

SpecChunk == InitChunk /\ [][NextChunk]_vars

(***************************************************************************)
(* create_fallback_block_json called on a block map, and again on the      *)
(* JSON text of its own result                                             *)
(***************************************************************************)
RawBlockChoices ==
    { RawBlock,
      Dict(<<Entry("text", Str(<<"Hi">>))>>),
      Dict(<<>>),
      Dict(<<Entry("words", List(<<Str(<<"Hi">>)>>))>>),
      Dict(<< Entry("text", Str(<<"Once", " ", "upon">>)),
              Entry("words", List(<<Str(<<"Once">>), Str(<<"upon">>)>>)),
              Entry("bounding_boxes", List(<<Str(<<"r1">>), Str(<<"r2">>)>>)),
              Entry("ssml", Str(<<"<speak>", "Once", "</speak>">>)),
              Entry("dialog", StrTrue),
              Entry("person_type", Str(young_boy)),
              Entry("timing", List(<<Str(<<"m1">>)>>)) >>) }

BlockMaps ==
    { Dict([i \in 1..Cardinality(K) |->
              Entry(ToString(SortedSeq(K)[i]), f[SortedSeq(K)[i]])]) :
        <<K, f>> \in UNION { {<<K0, f0>> : f0 \in [K0 -> RawBlockChoices]} :
                             K0 \in SUBSET BlockIds } }

\* the arguments enumerated: the JSON text of a block map, of a map whose
\* value is no block, of a list; a str that is no JSON; a dict
FallbackInputs ==
    { JsonDumps(m) : m \in BlockMaps }
      \cup { JsonDumps(Dict(<<Entry("0", Str(<<"Hi">>))>>)), JsonDumps(List(<<>>)),
             Str(<<"oops">>), RawBlock }

FallbackOnce ==
    /\ fbPc = "input"
    /\ fbOut' = create_fallback_block_json(fbIn)
    /\ fbPc' = "once"
    /\ UNCHANGED <<fbIn, fbOut2, ttsVars, genVars, chVars, fnVars>>

FallbackTwice ==
    /\ fbPc = "once"
    /\ fbOut # None
    /\ fbOut2' = create_fallback_block_json(JsonDumps(fbOut))
    /\ fbPc' = "twice"
    /\ UNCHANGED <<fbIn, fbOut, ttsVars, genVars, chVars, fnVars>>

InitFallback ==
    /\ fbPc = "input"
    /\ fbIn \in FallbackInputs
    /\ fbOut = None
    /\ fbOut2 = None
    /\ TtsIdle
    /\ GenInit
    /\ ChunkIdle
    /\ VoiceIdle
    /\ ExtractIdle
    /\ CleanIdle

NextFallback ==
    \/ FallbackOnce
    \/ FallbackTwice

SpecFallback == InitFallback /\ [][NextFallback]_vars

(***************************************************************************)
(* Voice resolution (saving_utils.py 60) applied to two person_type values *)
(***************************************************************************)
UpperChar(c) ==
    IF \E i \in 1..Len(LowerCase) : LowerCase[i] = c
    THEN UpperCase[CHOOSE i \in 1..Len(LowerCase) : LowerCase[i] = c]
    ELSE c
Upper(s) == [i \in 1..Len(s) |-> UpperChar(s[i])]
\* the first letter of every word in upper case
Title(s) == [i \in 1..Len(s) |-> IF i = 1 \/ s[i - 1] = " " THEN UpperChar(s[i]) ELSE s[i]]

\* the keys of PERSON_TYPE_TO_VOICE
Categories ==
    {young_boy, old_man, young_girl, old_woman, middle_aged_man, middle_aged_woman}

\* the person_type values enumerated, data.get("person_type") of a block:
\* every category in lower, upper and title case, strings that name no
\* category, the empty string, None for an absent field or a JSON null,
\* and a JSON number
PersonTypes ==
    UNION { {Str(c), Str(Upper(c)), Str(Title(c))} : c \in Categories }
      \cup { StrNull, Str(Upper(StrNull.s)), Str(<<"r", "o", "b", "o", "t">>),
             Str(<<"y", "o", "u", "n", "g", "b", "o", "y">>), EmptyStr, None, Num(3) }

VoiceResolve ==
    /\ vcPc = "input"
    /\ vcOut' = <<VoiceFor(vcIn[1]), VoiceFor(vcIn[2])>>
    /\ vcPc' = "resolved"
    /\ UNCHANGED <<vcIn, exVars, clVars, ttsVars, genVars, chVars, fbVars>>

InitVoice ==
    /\ vcPc = "input"
    /\ vcIn \in PersonTypes \X PersonTypes
    /\ vcOut = <<>>
    /\ ExtractIdle
    /\ CleanIdle
    /\ TtsIdle
    /\ GenInit
    /\ ChunkIdle
    /\ FallbackIdle

NextVoice == VoiceResolve

SpecVoice == InitVoice /\ [][NextVoice]_vars

(***************************************************************************)
(* annotate_image_with_words (image_processing_utils.py 22-51) called on a *)
(* word list, with the empty block_details of tts_service.py 60            *)
(***************************************************************************)
\* the words enumerated: two spellings, two rectangles, any block
WordChoices ==
    { Word(w, b, 0, 0, r) : w \in {"a", "b"}, b \in BlockIds, r \in {"r1", "r2"} }
WordLists == UNION { [1..n -> WordChoices] : n \in 0..MaxWords }

\* lines 29-44: one round of the loop
ExtractWord ==
    /\ exPc = "words"
    /\ exIdx < Len(exWords)
    /\ exDetails' = AddWord(exDetails, exWords[exIdx + 1])
    /\ exIdx' = exIdx + 1
    /\ UNCHANGED <<exPc, exWords, vcVars, clVars, ttsVars, genVars, chVars, fbVars>>

\* lines 50-51: the text of every block is stripped
ExtractStrip ==
    /\ exPc = "words"
    /\ exIdx = Len(exWords)
    /\ exDetails' = Dict([i \in 1..Len(exDetails.entries) |->
                            Entry(exDetails.entries[i].k,
                                  SetItem(exDetails.entries[i].v, "text",
                                          Str(Strip(Item(exDetails.entries[i].v, "text").s))))])
    /\ exPc' = "done"
    /\ UNCHANGED <<exWords, exIdx, vcVars, clVars, ttsVars, genVars, chVars, fbVars>>

InitExtract ==
    /\ exPc = "words"
    /\ exWords \in WordLists
    /\ exIdx = 0
    /\ exDetails = Dict(<<>>)
    /\ VoiceIdle
    /\ CleanIdle
    /\ TtsIdle
    /\ GenInit
    /\ ChunkIdle
    /\ FallbackIdle

NextExtract ==
    \/ ExtractWord
    \/ ExtractStrip

SpecExtract == InitExtract /\ [][NextExtract]_vars

(***************************************************************************)
(* clean_llm_response_to_json_string (generate_block_json_utils.py         *)
(* 101-124).  A text is the sequence of its characters.                    *)
(***************************************************************************)
\* the backquote character
Backquote == "bq"
FenceOpen == <<Backquote, Backquote, Backquote, "j", "s", "o", "n">>
FenceClose == <<Backquote, Backquote, Backquote>>

IsSpace(c) == c \in {" ", "\n"}
\* str.strip() of a text
RECURSIVE StripSpaceLeft(_)
StripSpaceLeft(t) == IF t # <<>> /\ IsSpace(Head(t)) THEN StripSpaceLeft(Tail(t)) ELSE t
RECURSIVE StripSpaceRight(_)
StripSpaceRight(t) ==
    IF t # <<>> /\ IsSpace(t[Len(t)]) THEN StripSpaceRight(SubSeq(t, 1, Len(t) - 1)) ELSE t
StripSpace(t) == StripSpaceRight(StripSpaceLeft(t))

StartsWith(t, prefix) == Len(t) >= Len(prefix) /\ SubSeq(t, 1, Len(prefix)) = prefix
EndsWith(t, suffix) ==
    Len(t) >= Len(suffix) /\ SubSeq(t, Len(t) - Len(suffix) + 1, Len(t)) = suffix

\* str.find / str.rfind of one character, as a position from 1; 0: not found
Find(t, c) ==
    IF \E i \in 1..Len(t) : t[i] = c
    THEN CHOOSE i \in 1..Len(t) : t[i] = c /\ \A j \in 1..(i - 1) : t[j] # c
    ELSE 0
RFind(t, c) ==
    IF \E i \in 1..Len(t) : t[i] = c
    THEN CHOOSE i \in 1..Len(t) : t[i] = c /\ \A j \in (i + 1)..Len(t) : t[j] # c
    ELSE 0

\* lines 109-113: the fence is removed from a text that starts with it
Unfence(text) ==
    IF StartsWith(text, FenceOpen)
    THEN LET rest == SubSeq(text, Len(FenceOpen) + 1, Len(text))
         IN  StripSpace(IF EndsWith(rest, FenceClose)
                        THEN SubSeq(rest, 1, Len(rest) - Len(FenceClose))
                        ELSE rest)
    ELSE text

\* as clean_llm_response_to_json_string, but the slice ends at the first "}"
CleanToFirstClosingBrace(llm_response_text) ==
    LET text == Unfence(StripSpace(llm_response_text))
        first_brace == Find(text, "{")
        last_brace == Find(text, "}")
    IN  IF first_brace # 0 /\ last_brace # 0 /\ last_brace > first_brace
        THEN SubSeq(text, first_brace, last_brace)
        ELSE text

\* lines 106-124
clean_llm_response_to_json_string(llm_response_text) ==
    LET text == Unfence(StripSpace(llm_response_text))
        first_brace == Find(text, "{")
        last_brace == RFind(text, "}")
    IN  IF first_brace # 0 /\ last_brace # 0 /\ last_brace > first_brace
        THEN SubSeq(text, first_brace, last_brace)
        ELSE text

\* The responses enumerated: one JSON object, with or without the opening
\* fence before it, the closing fence after it, prose before and prose
\* after.  The objects: empty, flat, nested, with a brace inside a string.
\* The prose: none, plain words, words that hold a brace.
JsonObjects ==
    { <<"{", "}">>,
      <<"{", "\"", "k", "\"", ":", "1", "}">>,
      <<"{", "\"", "k", "\"", ":", " ", "{", "\"", "k", "\"", ":", "1", "}", ",",
        "\n", "\"", "j", "\"", ":", "{", "}", "}">>,
      <<"{", "\"", "k", "\"", ":", "\"", "}", "{", "\"", "}">> }
ProseBefore ==
    { <<>>, <<"H", "e", "r", "e", ":", "\n">>, <<"a", "s", " ", "{", "i", "d", ":", " ">>,
      <<"a", "s", " ", "{", "i", "d", "}", ":", " ">>, <<"e", "n", "d", " ", "}", " ">> }
ProseAfter ==
    { <<>>, <<"\n", "D", "o", "n", "e", ".">>, <<" ", "i", "d", "}", " ", "o", "k">>,
      <<" ", "{", "i", "d", "}", " ", "o", "k">>, <<" ", "{", " ", "o", "k">> }
Responses ==
    [lead : ProseBefore, open : {<<>>, FenceOpen, FenceOpen \o <<"\n">>}, object : JsonObjects,
     close : {<<>>, FenceClose, <<"\n">> \o FenceClose \o <<"\n">>}, trail : ProseAfter]
\* the response as the text the provider sent
ResponseText(r) == r.lead \o r.open \o r.object \o r.close \o r.trail

CleanResponse ==
    /\ clPc = "input"
    /\ clOut' = clean_llm_response_to_json_string(ResponseText(clIn))
    /\ clPc' = "cleaned"
    /\ UNCHANGED <<clIn, vcVars, exVars, ttsVars, genVars, chVars, fbVars>>

InitClean ==
    /\ clPc = "input"
    /\ clIn \in Responses
    /\ clOut = <<>>
    /\ VoiceIdle
    /\ ExtractIdle
    /\ TtsIdle
    /\ GenInit
    /\ ChunkIdle
    /\ FallbackIdle

NextClean == CleanResponse

SpecClean == InitClean /\ [][NextClean]_vars

(***************************************************************************)
(* Properties                                                              *)
(***************************************************************************)

\* C1: generate_block_json calls the provider min(k, 3) times, k the
\* position of the first successful reply: it never calls a 4th time, it
\* calls no more after a success and returns that parsed reply, and it
\* returns None only after 3 failed calls.
C1_RetryBudget ==
    /\ Len(history) <= 3
    /\ \A i \in 1..(Len(history) - 1) : ~history[i].ok
    /\ (genPc = "loop") => (\A i \in 1..Len(history) : ~history[i].ok)
    /\ (genPc = "returned" /\ history # <<>>) =>
         IF history[Len(history)].ok
         THEN genResult = history[Len(history)].reply
         ELSE Len(history) = 3 /\ genResult = None

\* two failed calls, then a block map as the third reply, which is returned
C1_Witness ==
    /\ genPc = "returned"
    /\ Len(history) = 3
    /\ history[3].ok
    /\ genResult.kind = "dict"
    /\ genResult.entries # <<>>

\* the keys of the chunks handed over so far, one after the other
RECURSIVE Concat(_)
Concat(chunks) == IF chunks = <<>> THEN <<>> ELSE Head(chunks) \o Concat(Tail(chunks))

\* generate_block_json failed for chunk i: it raised or returned None
ChunkFailed(i) == chunkResults[i] \in {"raised", "none"}

\* C2: chunk_and_process_json hands the chunks over in the key order of
\* its input; once a chunk fails it returns None, whatever it accumulated,
\* and hands over no further chunk; it returns a mapping only when every
\* chunk of the input was handed over and none failed.
C2_AllOrNothing ==
    /\ (chPc \in {"loop", "wait", "done"} /\ submitted # <<>>) =>
         /\ Concat(submitted) = SubSeq(Keys(chArg.val), 1, Len(Concat(submitted)))
         /\ \A i \in 1..(Len(chunkResults) - 1) : ~ChunkFailed(i)
    /\ (chPc \in {"loop", "wait"}) => (\A i \in 1..Len(chunkResults) : ~ChunkFailed(i))
    /\ (chPc = "done" /\ \E i \in 1..Len(chunkResults) : ChunkFailed(i)) =>
         /\ chResult = None
         /\ Len(submitted) = Len(chunkResults)
    /\ (chPc = "done" /\ chResult.kind = "dict") =>
         /\ Len(chunkResults) = Len(submitted)
         /\ \A i \in 1..Len(chunkResults) : ~ChunkFailed(i)
         /\ chunk_size > 0 => Concat(submitted) = Keys(chArg.val)

\* three chunks of one block: the first was merged, the second failed,
\* the third was never handed over and None is returned
C2_Witness ==
    /\ chPc = "done"
    /\ chunk_size = 1
    /\ Len(block_keys) = 3
    /\ Len(chunkResults) = 2
    /\ ~ChunkFailed(1)
    /\ ChunkFailed(2)
    /\ final_output.entries # <<>>
    /\ submitted = <<(<<"0">>), (<<"1">>)>>
    /\ chResult = None

\* a block map: the JSON text of a mapping whose values are block records
IsBlockMapText(x) ==
    /\ x.kind = "json"
    /\ x.val.kind = "dict"
    /\ \A i \in 1..Len(x.val.entries) : x.val.entries[i].v.kind = "dict"

\* C3: the fallback enrichment of a block map has exactly the ids of the
\* map, in its order; each block keeps its text, words and bounding_boxes
\* and gets ssml = "<speak><prosody rate='slow'>" + text + "</prosody></speak>",
\* dialog "false" and person_type "null"; applied to its own result it
\* gives that result again.
C3_FallbackEnrichment ==
    (fbPc \in {"once", "twice"} /\ IsBlockMapText(fbIn)) =>
      /\ fbOut.kind = "dict"
      /\ Keys(fbOut) = Keys(fbIn.val)
      /\ \A i \in 1..Len(fbIn.val.entries) :
           LET in == fbIn.val.entries[i].v
               out == fbOut.entries[i].v
               text == IF HasKey(in, "text") THEN Item(in, "text").s ELSE <<>>
           IN  /\ \A f \in {"text", "words", "bounding_boxes"} :
                    HasKey(in, f) => HasKey(out, f) /\ Item(out, f) = Item(in, f)
               /\ HasKey(out, "ssml")
               /\ Item(out, "ssml") =
                    Str(<<"<speak><prosody rate='slow'>">> \o text
                          \o <<"</prosody></speak>">>)
               /\ HasKey(out, "dialog")
               /\ Item(out, "dialog") = Str(<<"f", "a", "l", "s", "e">>)
               /\ HasKey(out, "person_type")
               /\ Item(out, "person_type") = Str(<<"n", "u", "l", "l">>)
      /\ (fbPc = "twice") => fbOut2 = fbOut

\* a map of two blocks, one of them enriched before, was given and the
\* result went through the function again
C3_Witness ==
    /\ fbPc = "twice"
    /\ IsBlockMapText(fbIn)
    /\ Len(fbIn.val.entries) = 2
    /\ HasKey(fbIn.val.entries[1].v, "ssml")
    /\ Len(fbOut.entries) = 2
    /\ fbOut2 = fbOut

\* the failures of the collaborators: the file system, the renderer, the
\* enrichment and synthesis providers
ExternalFaults == {"OSError", "RenderError", "FileDataError", "ProviderError"}

\* C4: a request whose page has at least one block and whose enrichment
\* took the fallback path ends, when no collaborator fails, with status
\* "success", one PageResult per page and an audio_metadata entry for
\* every block of the page.
C4_FallbackRequestSucceeds ==
    (/\ pc = "done"
     /\ outcome = "returned"
     /\ fallbackTaken
     /\ block_details.kind = "dict"
     /\ block_details.entries # <<>>
     /\ exc \notin ExternalFaults) =>
      /\ ret.status = "success"
      /\ Len(ret.results) = numPages
      /\ Len(audio_metadata) = Len(block_details.entries)

\* C5: an exception raised while page k is processed aborts the request:
\* nothing is done for a later page, and the function returns a result
\* with status "error", a message and an errors map, and no results.
C5_PageExceptionAborts ==
    (pc = "done" /\ excPage >= 0) =>
      /\ \A o \in ops : o[1] <= excPage
      /\ outcome = "returned"
      /\ ret.status = "error"
      /\ {"message", "errors"} \subseteq DOMAIN ret
      /\ "results" \notin DOMAIN ret

\* C6, as claimed: once the temporary copy was created it is gone when
\* the function returns, on every exit path.
C6_TempRemovedOnEveryPath ==
    (pc = "done" /\ outcome = "returned" /\ tempCreated) => ~tempExists

\* C6, amended: once the temporary copy was created, the function calls
\* os.remove on it before it ends, on every exit path, and the file is gone
\* whenever that call succeeds; it is still there when the call fails.
C6_TempRemovalAttempted ==
    /\ (pc = "done" /\ tempCreated) =>
         /\ removeResult # "none"
         /\ (removeResult = "ok") <=> ~tempExists
    /\ (pc # "done" /\ tempCreated) => tempExists /\ removeResult = "none"

\* the synthesis provider raised on a page, and the copy is gone at the end
C6_Witness ==
    /\ pc = "done"
    /\ tempCreated
    /\ exc = "ProviderError"
    /\ excPage >= 0
    /\ removeResult = "ok"
    /\ ~tempExists

\* C7: a failed deletion of the temporary copy never leaves the function
\* as an exception and never replaces its result: the caller gets the
\* success or error result it would have got.
C7_DeletionFailureSwallowed ==
    (pc = "done" /\ removeResult \notin {"none", "ok"}) =>
      /\ outcome = "returned"
      /\ ret.status = (IF exc = "none" THEN "success" ELSE "error")

\* what C8 counts as something else failing: a collaborator, an enrichment
\* result that cannot be iterated, a block that is no record, a person_type
\* that is no str
OtherFailures == ExternalFaults \cup {"TypeError", "AttributeError"}

\* C8: blocks without ssml are skipped and never fail the request: however
\* many blocks of a page lack ssml, all of them or a page without blocks
\* included, the request ends with status "success" and a PageResult for
\* every page when nothing else fails.
C8_SkippedBlocksNeverFail ==
    (pc = "done" /\ outcome = "returned" /\ exc \notin OtherFailures) =>
      /\ ret.status = "success"
      /\ Len(ret.results) = numPages

\* the record of a block in the enrichment result
BlockRecord(bj, id) == IF bj.kind = "dict" THEN Item(bj, id.v) ELSE bj.items[id.v + 1]

\* the marks of a stream in the order given, the lines that do not parse left out
EmittedMarks(stream) ==
    LET good == SelectSeq(stream, LAMBDA l : l.ok)
    IN  [i \in 1..Len(good) |-> Str(<<good[i].mark>>)]

C10_NarratorForNonDialog ==
    \A j \in 1..Len(synthLog) :
      (synthLog[j].voice # "none" /\ synthLog[j].dialog = Str(<<"f", "a", "l", "s", "e">>))
        => synthLog[j].voice = "Joanna"

\* the voice the table of the claim gives a category
MappedVoice(c) ==
    CASE c = <<"y", "o", "u", "n", "g", " ", "b", "o", "y">> -> "Justin"
      [] c = <<"o", "l", "d", " ", "m", "a", "n">> -> "Matthew"
      [] c = <<"y", "o", "u", "n", "g", " ", "g", "i", "r", "l">> -> "Ivy"
      [] c = <<"o", "l", "d", " ", "w", "o", "m", "a", "n">> -> "Kimberly"
      [] c = <<"m", "i", "d", "d", "l", "e", " ", "a", "g", "e", "d", " ", "m", "a", "n">>
           -> "Joey"
      [] OTHER -> "Joanna"

\* a person_type the claim speaks of: a string, or None for an absent one
IsPersonType(v) == v.kind \in {"str", "none"}

\* C11: voice resolution is case-insensitive and total over strings and
\* None: two strings that differ only in letter case get the same voice,
\* each of the six categories, in any case, gets its mapped voice, and
\* every other string, "null" and None get "Joanna"; nothing is raised.
C11_VoiceResolution ==
    (vcPc = "resolved") =>
      /\ \A i \in 1..2 :
           IsPersonType(vcIn[i]) =>
             /\ vcOut[i].exc = "none"
             /\ vcOut[i].voice =
                  (IF vcIn[i].kind = "str" /\ Lower(vcIn[i].s) \in Categories
                   THEN MappedVoice(Lower(vcIn[i].s))
                   ELSE "Joanna")
      /\ (/\ vcIn[1].kind = "str"
          /\ vcIn[2].kind = "str"
          /\ Lower(vcIn[1].s) = Lower(vcIn[2].s)) => vcOut[1] = vcOut[2]

\* "Young Boy" and "young boy" were resolved, both to Justin
C11_Witness ==
    /\ vcPc = "resolved"
    /\ vcIn[1] = Str(<<"Y", "o", "u", "n", "g", " ", "B", "o", "y">>)
    /\ vcIn[2] = Str(<<"y", "o", "u", "n", "g", " ", "b", "o", "y">>)
    /\ vcOut[1].voice = "Justin"
    /\ vcOut[2].voice = "Justin"

\* the words processed so far that belong to block b, in input order
WordsOfBlock(b) == SelectSeq(SubSeq(exWords, 1, exIdx), LAMBDA w : w.block_no = b)

\* C12: block extraction gives every block words and bounding_boxes of
\* equal length, holding exactly the words and rectangles of the block in
\* input order, entry i of one belonging to entry i of the other; this
\* holds after each processed word, the blocks are exactly those of the
\* processed words, and an empty word list gives an empty mapping.
C12_WordsAndBoxesAligned ==
    (exPc \in {"words", "done"}) =>
      /\ {exDetails.entries[i].k : i \in 1..Len(exDetails.entries)}
           = {exWords[j].block_no : j \in 1..exIdx}
      /\ \A i \in 1..Len(exDetails.entries) :
           LET block == exDetails.entries[i].v
               mine == WordsOfBlock(exDetails.entries[i].k)
               words == Item(block, "words").items
               boxes == Item(block, "bounding_boxes").items
           IN  /\ Len(words) = Len(boxes)
               /\ Len(words) = Len(mine)
               /\ \A j \in 1..Len(mine) :
                    /\ words[j] = [kind |-> "str", s |-> <<mine[j].word>>]
                    /\ boxes[j] = [kind |-> "str", s |-> <<mine[j].rect>>]
      /\ (exWords = <<>>) => exDetails.entries = <<>>

\* three words, the second of another block than the first and the third:
\* the block of the first holds both of its words and rectangles in order
C12_Witness ==
    /\ exPc = "done"
    /\ Len(exWords) = 3
    /\ exWords[1].block_no = 0
    /\ exWords[2].block_no = 1
    /\ exWords[3].block_no = 0
    /\ exWords[1].word # exWords[3].word
    /\ exWords[1].rect # exWords[3].rect
    /\ Len(exDetails.entries) = 2
    /\ Len(Item(exDetails.entries[1].v, "words").items) = 2
    /\ Len(Item(exDetails.entries[1].v, "bounding_boxes").items) = 2

HasChar(t, c) == \E i \in 1..Len(t) : t[i] = c

\* C13, as claimed: for a response that is one JSON object, with or
\* without the fence and with or without prose around it, the extracted
\* candidate is exactly the text of the object.
C13_ExtractsObject ==
    (clPc = "cleaned") => clOut = clIn.object

\* C13, amended: the same, for a response whose prose before the object
\* holds no "{" and whose prose after the object holds no "}".
C13_ExtractsObjectFromPlainProse ==
    (clPc = "cleaned" /\ ~HasChar(clIn.lead, "{") /\ ~HasChar(clIn.trail, "}")) =>
      clOut = clIn.object

\* a fenced nested object with prose before and after was reduced to the
\* object
C13_Witness ==
    /\ clPc = "cleaned"
    /\ clIn.lead = <<"H", "e", "r", "e", ":", "\n">>
    /\ clIn.open # <<>>
    /\ clIn.close # <<>>
    /\ clIn.trail = <<"\n", "D", "o", "n", "e", ".">>
    /\ Len(clIn.object) > 7
    /\ clOut = clIn.object

\* C14: when the enrichment of a page ends in failure after the retry
\* budget is used up, no block of that page is synthesized, no PageResult
\* is emitted for it, no later page is processed, and the function returns
\* a result with status "error" and an errors map.
C14_EnrichmentFailureAborts ==
    (pc = "done" /\ retriesExhausted) =>
      /\ <<page_number, "synthesize">> \notin ops
      /\ synthLog = <<>>
      /\ Len(results) = page_number
      /\ \A o \in ops : o[1] <= page_number
      /\ outcome = "returned"
      /\ ret.status = "error"
      /\ "errors" \in DOMAIN ret

\* C15: in a successful result every PageResult names, as its
\* vertex_trimmed_path, the trimmed-blocks file of its own page, written
\* while that page was processed.
C15_OwnTrimmedPath ==
    (pc = "done" /\ outcome = "returned" /\ ret.status = "success") =>
      \A i \in 1..Len(ret.results) :
        /\ ret.results[i].vertex_trimmed_path = ret.results[i].page_number
        /\ <<ret.results[i].page_number, "synthesize">> \in ops

\* C16: a chunk whose reply parses to the empty object is a successful
\* chunk: when every chunk gave a block map or the empty object, all
\* chunks of the input are handed over and a mapping is returned.
C16_EmptyObjectChunkSucceeds ==
    (/\ chPc = "done"
     /\ \E i \in 1..Len(chunkResults) : chunkResults[i] = "emptyobject"
     /\ \A i \in 1..Len(chunkResults) : chunkResults[i] \in {"emptyobject", "dict"}) =>
      /\ chResult.kind = "dict"
      /\ Concat(submitted) = Keys(chArg.val)

====
